---- MODULE Spec2Model ----
(***************************************************************************)
(* Model of augment_data.py (the row augmentation loop) and                *)
(* austin_city_api.py (the client of the two remote lookups).              *)
(*                                                                         *)
(* A CSV row is a Python dict: an insertion-ordered mapping, modelled as a  *)
(* sequence of [k, v] pairs.  Python values are tagged records so that the *)
(* integer 7, the string "7" and None are three different values.          *)
(* Floats (coordinates, the sleep interval) are modelled by integers.      *)
(***************************************************************************)
EXTENDS Integers, Sequences, FiniteSets, TLC

VARIABLES
    pc,        \* position of main: "construct", "row", "sleep", "write", "done", "fault"
    data,      \* main's list of row dicts, mutated in place
    read,      \* history: the rows as read_csv returned them
    interval,  \* args.interval
    i,         \* 1-based index of the row the for loop is at
    service,   \* austin_service: NoService or [session |-> id]
    nsessions, \* number of requests.Session objects created so far
    requests,  \* history: the HTTP GETs issued, with the response each got
    calls,     \* history: one record per call of add_city_council_district
    events,    \* history: row-processing and sleep events, with the time of each
    clock,     \* elapsed time, advanced by time.sleep
    address,   \* the last address assemble_address returned to main
    output     \* the output file: NoOutput or [header, rows]

vars == <<pc, data, read, interval, i, service, nsessions, requests, calls, events,
          clock, address, output>>

-----------------------------------------------------------------------------
(* Bounds of the model *)

MaxRows == 2

MaxInt == 9

(* argparse default of --interval *)
DefaultInterval == 30

-----------------------------------------------------------------------------
(* Python values *)

StrVal(s) == [t |-> "str", s |-> s]

IntVal(n) == [t |-> "int", n |-> n]

NoneVal == [t |-> "none"]

(* str(v), as an f-string or the csv writer formats a value *)
Fmt(v) ==
    CASE v.t = "str" -> v.s
      [] v.t = "int" -> ToString(v.n)
      [] v.t = "none" -> "None"

(* the csv writer's rendering of a cell: None is written as the empty string *)
CsvCell(v) == IF v.t = "none" THEN "" ELSE Fmt(v)

(* int(v): [fault, ret] *)
PyInt(v) ==
    CASE v.t = "int" -> [fault |-> FALSE, ret |-> v]
      [] v.t = "str" ->
            IF \E n \in 0..MaxInt : ToString(n) = v.s
            THEN [fault |-> FALSE,
                  ret |-> IntVal(CHOOSE n \in 0..MaxInt : ToString(n) = v.s)]
            ELSE [fault |-> TRUE, ret |-> NoneVal]
      [] v.t = "none" -> [fault |-> TRUE, ret |-> NoneVal]

-----------------------------------------------------------------------------
(* dict operations on a row *)

Keys(row) == [j \in 1..Len(row) |-> row[j].k]

Has(row, key) == \E j \in 1..Len(row) : row[j].k = key

(* row.get(key, default) *)
Get(row, key, default) ==
    IF Has(row, key)
    THEN row[CHOOSE j \in 1..Len(row) : row[j].k = key].v
    ELSE default

(* row[key] = v: an existing key keeps its position, a new key goes last *)
Put(row, key, v) ==
    IF Has(row, key)
    THEN [j \in 1..Len(row) |-> IF row[j].k = key THEN [k |-> key, v |-> v] ELSE row[j]]
    ELSE Append(row, [k |-> key, v |-> v])

-----------------------------------------------------------------------------
(* augment_data.assemble_address *)

assemble_address_swapped(row) ==
    Fmt(Get(row, "address1", StrVal(""))) \o " "
        \o Fmt(Get(row, "address2", StrVal(""))) \o ", "
        \o Fmt(Get(row, "state", StrVal(""))) \o ", "
        \o Fmt(Get(row, "city", StrVal(""))) \o ", "
        \o Fmt(Get(row, "zip", StrVal(""))) \o ", "
        \o Fmt(Get(row, "country", StrVal("")))

assemble_address(row) ==
    Fmt(Get(row, "address1", StrVal(""))) \o " "
        \o Fmt(Get(row, "address2", StrVal(""))) \o ", "
        \o Fmt(Get(row, "city", StrVal(""))) \o ", "
        \o Fmt(Get(row, "state", StrVal(""))) \o ", "
        \o Fmt(Get(row, "zip", StrVal(""))) \o ", "
        \o Fmt(Get(row, "country", StrVal("")))

-----------------------------------------------------------------------------
(* HTTP: the responses the remote service may give *)

LandingUrl == "https://www.austintexas.gov/government"

GeocodeUrl == "https://maps.austintexas.gov/arcgis/rest/services/Geocode/COA_Locator/GeocodeServer/findAddressCandidates"

DistrictUrl == "https://maps.austintexas.gov/gis/rest/Shared/CouncilDistrictsFill/MapServer/0/query"

(* A response body is a sequence of tokens; a JSON document is one token. *)
Tok(s) == [tok |-> s]

JsonTok(obj) == [tok |-> "json", obj |-> obj]

BadJsonTok == [tok |-> "badjson"]

(* the connection failed: session.get raises *)
NetFault == [status |-> "neterr"]

Body(text) == [status |-> "ok", text |-> text]

Jsonp(name, doc) == Body(<<Tok(name), Tok("("), doc, Tok(")"), Tok(";")>>)

Candidate(addr, x, y) ==
    [address |-> addr, location |-> [x |-> x, y |-> y], score |-> 100,
     extent |-> [xmin |-> x - 1, ymin |-> y - 1, xmax |-> x + 1, ymax |-> y + 1]]

GeocodeResponses ==
    { NetFault,
      \* no "(" in the body
      Body(<<JsonTok([candidates |-> <<>>])>>),
      \* the final ";" is missing, so the slice cuts into the document
      Body(<<Tok("callback"), Tok("("), JsonTok([candidates |-> <<>>]), Tok(")")>>),
      Jsonp("callback", BadJsonTok),
      \* a document without "candidates"
      Jsonp("callback", JsonTok([error |-> "x"])),
      \* a candidate without "score" and "extent"
      Jsonp("callback", JsonTok([candidates |-> <<[address |-> "1 MAIN ST",
                                                  location |-> [x |-> 3, y |-> 4]]>>])),
      Jsonp("callback", JsonTok([candidates |-> <<>>])),
      Jsonp("callback", JsonTok([candidates |-> <<Candidate("1 MAIN ST", 3, 4)>>])),
      \* another callback name: warned about, parsed all the same
      Jsonp("cb", JsonTok([candidates |-> <<Candidate("2 OAK AVE", 5, 6)>>])) }

Feature(d) == [attributes |-> [COUNCIL_DISTRICT |-> d]]

DistrictResponses ==
    { NetFault,
      Body(<<BadJsonTok>>),
      Body(<<JsonTok([error |-> "x"])>>),
      Body(<<JsonTok([features |-> <<[geometry |-> "x"]>>])>>),
      \* a district that int() does not take
      Body(<<JsonTok([features |-> <<Feature(StrVal("north"))>>])>>),
      Body(<<JsonTok([features |-> <<Feature(NoneVal)>>])>>),
      Body(<<JsonTok([features |-> <<>>])>>),
      Body(<<JsonTok([features |-> <<Feature(IntVal(7)), Feature(IntVal(0))>>])>>),
      Body(<<JsonTok([features |-> <<Feature(IntVal(0))>>])>>),
      Body(<<JsonTok([features |-> <<Feature(StrVal("7"))>>])>>) }

LandingResponses == { NetFault, Body(<<Tok("html")>>) }

(* json.loads / response.json(): [fault, ret] *)
JsonLoads(text) ==
    IF Len(text) = 1 /\ text[1].tok = "json"
    THEN [fault |-> FALSE, ret |-> text[1].obj]
    ELSE [fault |-> TRUE, ret |-> NoneVal]

-----------------------------------------------------------------------------
(* austin_city_api.AustinDataService *)

NoService == [session |-> 0]

(* requests.get instead of self.session.get: a connection of its own *)
RequestsGet(self, url, param, resp) ==
    [url |-> url, session |-> 0, param |-> param, resp |-> resp]

(* self.session.get(url, params=params), with the response it got *)
SessionGet(self, url, param, resp) ==
    [url |-> url, session |-> self.session, param |-> param, resp |-> resp]

(* response.text.startswith("callback(") *)
StartsWithCallback(text) ==
    Len(text) >= 2 /\ text[1] = Tok("callback") /\ text[2] = Tok("(")

HasParen(text) == \E j \in 1..Len(text) : text[j] = Tok("(")

(* response.text.index("(") *)
IndexOfParen(text) ==
    CHOOSE j \in 1..Len(text) :
        text[j] = Tok("(") /\ \A m \in 1..(j - 1) : text[m] # Tok("(")

(* response.text[response.text.index("(") + 1 : -2] *)
StripJsonp(text) == SubSeq(text, IndexOfParen(text) + 1, Len(text) - 2)

(* the fields GeocodedAddress, Location and Extent are built from; a missing or
   extra key raises *)
CandidateFault(c) ==
    \/ {"address", "location", "score", "extent"} \ DOMAIN c # {}
    \/ DOMAIN c.location # {"x", "y"}
    \/ DOMAIN c.extent # {"xmin", "ymin", "xmax", "ymax"}

(* the GeocodedAddress built from the first candidate *)
GeocodedAddress(c) ==
    [t |-> "GeocodedAddress", address |-> c.address, location |-> c.location,
     score |-> c.score, extent |-> c.extent]

Raised(req) == [req |-> req, fault |-> TRUE, ret |-> NoneVal]

Returned(req, v) == [req |-> req, fault |-> FALSE, ret |-> v]

(* geocode_address with candidates[0] read before the list is tested *)
geocode_address_unguarded(self, addr, resp) ==
    LET req == SessionGet(self, GeocodeUrl, addr, resp)
        parsed == JsonLoads(StripJsonp(resp.text))
        cands == parsed.ret.candidates
    IN  IF resp.status # "ok" THEN Raised(req)
        ELSE IF ~HasParen(resp.text) THEN Raised(req)
        ELSE IF parsed.fault THEN Raised(req)
        ELSE IF "candidates" \notin DOMAIN parsed.ret THEN Raised(req)
        ELSE IF Len(cands) = 0 THEN Raised(req)
        ELSE IF CandidateFault(cands[1]) THEN Raised(req)
        ELSE Returned(req, GeocodedAddress(cands[1]))

(* AustinDataService.geocode_address: [req, fault, ret] *)
geocode_address(self, addr, resp) ==
    LET req == SessionGet(self, GeocodeUrl, addr, resp)
        parsed == JsonLoads(StripJsonp(resp.text))
        cands == parsed.ret.candidates
    IN  IF resp.status # "ok" THEN Raised(req)
        ELSE IF ~HasParen(resp.text) THEN Raised(req)
        ELSE IF parsed.fault THEN Raised(req)
        ELSE IF "candidates" \notin DOMAIN parsed.ret THEN Raised(req)
        ELSE IF Len(cands) > 0
             THEN IF CandidateFault(cands[1]) THEN Raised(req)
                  ELSE Returned(req, GeocodedAddress(cands[1]))
             ELSE Returned(req, NoneVal)

(* f"{location.x},{location.y}" *)
Geometry(location) == ToString(location.x) \o "," \o ToString(location.y)

(* AustinDataService.get_council_district: [req, fault, ret] *)
get_council_district(self, location, resp) ==
    LET req == SessionGet(self, DistrictUrl, Geometry(location), resp)
        parsed == JsonLoads(resp.text)
        feats == parsed.ret.features
    IN  IF resp.status # "ok" THEN Raised(req)
        ELSE IF parsed.fault THEN Raised(req)
        ELSE IF "features" \notin DOMAIN parsed.ret THEN Raised(req)
        ELSE IF Len(feats) > 0
             THEN IF "attributes" \notin DOMAIN feats[1] THEN Raised(req)
                  ELSE LET n == PyInt(feats[1].attributes.COUNCIL_DISTRICT)
                       IN  IF n.fault THEN Raised(req) ELSE Returned(req, n.ret)
             ELSE Returned(req, NoneVal)

-----------------------------------------------------------------------------
(* augment_data.add_city_council_district *)

(* a guard that looks for the other added column *)
SkipGuardGeocoded(row) == Has(row, "geocoded_address")

(* a guard that tests the value instead of the key: row.get("city_council_district") *)
SkipGuardTruthy(row) ==
    LET v == Get(row, "city_council_district", NoneVal)
    IN  v # NoneVal /\ v # StrVal("") /\ v # IntVal(0)

(* "city_council_district" in row *)
SkipGuard(row) == Has(row, "city_council_district")

(* district if district else "Unknown": 0 is falsy *)
DistrictOrUnknownTruthy(district) ==
    IF district # NoneVal /\ district # IntVal(0) THEN district ELSE StrVal("Unknown")

(* the absent district written as the empty string *)
DistrictOrEmpty(district) ==
    IF district # NoneVal THEN district ELSE StrVal("")

(* district if district is not None else "Unknown" *)
DistrictOrUnknown(district) ==
    IF district # NoneVal THEN district ELSE StrVal("Unknown")

(* the else branch: no candidate *)
NotGeocoded(row) ==
    Put(Put(row, "geocoded_address", StrVal("")), "city_council_district", StrVal(""))

(* geo and dist are the responses the service gives if it is asked.
   Returns the row as the call leaves it, the requests issued, and whether
   the call raised. *)
add_city_council_district(austin_service, row, geo, dist) ==
    IF SkipGuard(row)
    THEN [row |-> row, reqs |-> <<>>, fault |-> FALSE]
    ELSE
      LET addr == assemble_address(row)
          g == geocode_address(austin_service, addr, geo)
      IN  IF g.fault
          THEN [row |-> row, reqs |-> <<g.req>>, fault |-> TRUE]
          ELSE IF g.ret # NoneVal
          THEN
            LET row1 == Put(row, "geocoded_address", StrVal(g.ret.address))
                d == get_council_district(austin_service, g.ret.location, dist)
            IN  IF d.fault
                THEN [row |-> row1, reqs |-> <<g.req, d.req>>, fault |-> TRUE]
                ELSE [row |-> Put(row1, "city_council_district", DistrictOrUnknown(d.ret)),
                      reqs |-> <<g.req, d.req>>, fault |-> FALSE]
          ELSE [row |-> NotGeocoded(row), reqs |-> <<g.req>>, fault |-> FALSE]

-----------------------------------------------------------------------------
(* csv.DictWriter, as main uses it *)

NoOutput == [written |-> FALSE]

(* open(args.output, "w") alone: an empty file *)
EmptyFile == [written |-> TRUE, header |-> <<>>, rows |-> <<>>]

(* DictWriter._dict_to_list: a key outside fieldnames raises ValueError *)
WrongFields(row, fieldnames) ==
    \E j \in 1..Len(row) : \A c \in 1..Len(fieldnames) : fieldnames[c] # row[j].k

(* the cells of one written row: fieldnames order, "" for a missing key *)
DictToList(row, fieldnames) ==
    [c \in 1..Len(fieldnames) |-> CsvCell(Get(row, fieldnames[c], StrVal("")))]

(* writerows(data[1:]): the first row taken for the header *)
RowsToWriteSkipFirst(d) == Tail(d)

(* the rows handed to writerows *)
RowsToWrite(d) == d

(* writeheader and writerows with fieldnames = data[0].keys(): [out, fault] *)
WriteCsv(d) ==
    LET fieldnames == Keys(d[1])
        rows == RowsToWrite(d)
        bad == { j \in 1..Len(rows) : WrongFields(rows[j], fieldnames) }
        n == IF bad = {} THEN Len(rows)
             ELSE (CHOOSE j \in bad : \A m \in bad : j <= m) - 1
    IN  [out |-> [written |-> TRUE, header |-> fieldnames,
                  rows |-> [j \in 1..n |-> DictToList(rows[j], fieldnames)]],
         fault |-> bad # {}]

-----------------------------------------------------------------------------
(* The inputs of a run: what read_csv returns, and args.interval *)

MakeRow(header, vals) == [j \in 1..Len(header) |-> [k |-> header[j], v |-> vals[j]]]

Headers ==
    { <<"address1", "city">>,
      <<"address1", "zip", "city_council_district">>,
      <<"geocoded_address", "city">> }

(* csv.DictReader gives strings, and None for the columns a short line lacks *)
ColumnValues(col) ==
    CASE col = "address1" -> { StrVal("1 Main St"), StrVal("2 Oak Ave") }
      [] col = "city" -> { StrVal("Austin") }
      [] col = "zip" -> { StrVal("78701") }
      [] col = "geocoded_address" -> { StrVal("9 OLD RD") }
      [] col = "city_council_district" -> { StrVal(""), StrVal("3"), NoneVal }

CellValues == UNION { UNION { ColumnValues(h[j]) : j \in 1..Len(h) } : h \in Headers }

RowsOf(h) ==
    { MakeRow(h, vals) : vals \in
        { f \in [1..Len(h) -> CellValues] : \A j \in 1..Len(h) : f[j] \in ColumnValues(h[j]) } }

(* every row of an input has the header's columns *)
Inputs ==
    { <<>> } \cup UNION { [1..n -> RowsOf(h)] : n \in 1..MaxRows, h \in Headers }

Intervals == { -1, 0, DefaultInterval }

-----------------------------------------------------------------------------
(* augment_data.main *)

(* the for loop's test *)
LoopHead(n) == IF n <= Len(data) THEN "row" ELSE "write"

(* an exception handled by writing out what was augmented so far *)
RaiseSalvage ==
    /\ pc' = "fault"
    /\ output' = IF data' = <<>> THEN EmptyFile ELSE WriteCsv(data').out

(* an exception leaves main: nothing below the raising line runs *)
Raise ==
    /\ pc' = "fault"
    /\ output' = output

(* the interval taken for milliseconds *)
SleepMillis == interval \div 1000

(* the argument of time.sleep *)
SleepDuration == interval

Init ==
    /\ pc = "construct"
    /\ data \in Inputs
    /\ read = data
    /\ interval \in Intervals
    /\ i = 1
    /\ service = NoService
    /\ nsessions = 0
    /\ requests = <<>>
    /\ calls = <<>>
    /\ events = <<>>
    /\ clock = 0
    /\ address = ""
    /\ output = NoOutput

(* austin_service = AustinDataService(): a new session, primed by one GET *)
Construct ==
    /\ pc = "construct"
    /\ \E resp \in LandingResponses :
         LET self == [session |-> nsessions + 1]
         IN  /\ nsessions' = nsessions + 1
             /\ requests' = Append(requests, SessionGet(self, LandingUrl, "", resp))
             /\ UNCHANGED <<data, read, interval, i, calls, events, clock, address>>
             /\ IF resp.status # "ok"
                THEN /\ service' = service
                     /\ Raise
                ELSE /\ service' = self
                     /\ pc' = LoopHead(1)
                     /\ output' = output

(* one iteration of the for loop up to the sleep: the log line and
   add_city_council_district(austin_service, row) *)
ProcessRow ==
    /\ pc = "row"
    /\ \E geo \in GeocodeResponses, dist \in DistrictResponses :
         LET r == add_city_council_district(service, data[i], geo, dist)
         IN  /\ address' = assemble_address(data[i])
             /\ events' = Append(events, [ev |-> "process", row |-> i, at |-> clock, secs |-> 0])
             /\ requests' = requests \o r.reqs
             /\ calls' = Append(calls, [row |-> i, before |-> data[i], after |-> r.row,
                                        reqs |-> r.reqs, fault |-> r.fault])
             /\ data' = [data EXCEPT ![i] = r.row]
             /\ UNCHANGED <<read, interval, i, service, nsessions, clock>>
             /\ IF r.fault
                THEN Raise
                ELSE /\ pc' = "sleep"
                     /\ output' = output

(* time.sleep(args.interval) and the step to the next row; a negative
   interval raises ValueError *)
Sleep ==
    /\ pc = "sleep"
    /\ UNCHANGED <<data, read, interval, service, nsessions, requests, calls, address>>
    /\ IF SleepDuration < 0
       THEN /\ UNCHANGED <<i, events, clock>>
            /\ Raise
       ELSE /\ events' = Append(events, [ev |-> "sleep", row |-> i, at |-> clock,
                                         secs |-> SleepDuration])
            /\ clock' = clock + SleepDuration
            /\ i' = i + 1
            /\ pc' = LoopHead(i + 1)
            /\ output' = output

(* the with block: open, writeheader, writerows; data[0] of an empty list
   raises IndexError after open has created the file *)
WriteOutput ==
    /\ pc = "write"
    /\ UNCHANGED <<data, read, interval, i, service, nsessions, requests, calls,
                   events, clock, address>>
    /\ IF data = <<>>
       THEN /\ output' = EmptyFile
            /\ pc' = "fault"
       ELSE LET w == WriteCsv(data)
            IN  /\ output' = w.out
                /\ pc' = IF w.fault THEN "fault" ELSE "done"

Next == Construct \/ ProcessRow \/ Sleep \/ WriteOutput

Spec == Init /\ [][Next]_vars

-----------------------------------------------------------------------------
(* assemble_address alone, over every combination of present and absent
   address fields *)

AddressFields == <<"address1", "address2", "city", "state", "zip", "country">>

FieldValues(col) ==
    CASE col = "address1" -> { StrVal(""), StrVal("1 Main St") }
      [] col = "address2" -> { StrVal(""), StrVal("Apt 2") }
      [] col = "city" -> { StrVal(""), StrVal("Austin") }
      [] col = "state" -> { StrVal(""), StrVal("TX") }
      [] col = "zip" -> { StrVal(""), StrVal("78701") }
      [] col = "country" -> { StrVal(""), StrVal("US"), NoneVal }

(* the rows with the fields of header, in the order of header; the last
   column of a short line is None *)
AddressRowsOf(header) ==
    { MakeRow(header, vals) : vals \in
        { f \in [1..Len(header) -> UNION { FieldValues(header[j]) : j \in 1..Len(header) }] :
            \A j \in 1..Len(header) : f[j] \in FieldValues(header[j]) } }

RECURSIVE SubSeqs(_)
(* the subsequences of a sequence: which fields a row has *)
SubSeqs(s) ==
    IF s = <<>> THEN { <<>> }
    ELSE LET rest == SubSeqs(Tail(s))
         IN  rest \cup { <<Head(s)>> \o t : t \in rest }

AddressRows == UNION { AddressRowsOf(h) : h \in SubSeqs(AddressFields) }

InitAssemble ==
    /\ pc = "assemble"
    /\ data \in { <<row>> : row \in AddressRows }
    /\ read = data
    /\ interval = DefaultInterval
    /\ i = 1
    /\ service = NoService
    /\ nsessions = 0
    /\ requests = <<>>
    /\ calls = <<>>
    /\ events = <<>>
    /\ clock = 0
    /\ address = ""
    /\ output = NoOutput

(* address = assemble_address(row) *)
Assemble ==
    /\ pc = "assemble"
    /\ address' = assemble_address(data[1])
    /\ pc' = "done"
    /\ UNCHANGED <<data, read, interval, i, service, nsessions, requests, calls,
                   events, clock, output>>

NextAssemble == Assemble

SpecAssemble == InitAssemble /\ [][NextAssemble]_vars

-----------------------------------------------------------------------------
(* Properties *)

GA == "geocoded_address"

CCD == "city_council_district"

(* a response body of the shape name(document); *)
IsJsonp(resp) ==
    /\ resp.status = "ok"
    /\ Len(resp.text) = 5
    /\ resp.text[2] = Tok("(")
    /\ resp.text[3].tok = "json"
    /\ resp.text[4] = Tok(")")
    /\ resp.text[5] = Tok(";")

(* the geocode response lists candidates: none, or a first one with all its fields *)
HasCandidateList(resp) ==
    IsJsonp(resp) /\ "candidates" \in DOMAIN resp.text[3].obj

NoCandidate(resp) ==
    HasCandidateList(resp) /\ resp.text[3].obj.candidates = <<>>

HasFirstCandidate(resp) ==
    /\ HasCandidateList(resp)
    /\ resp.text[3].obj.candidates # <<>>
    /\ DOMAIN resp.text[3].obj.candidates[1] = {"address", "location", "score", "extent"}

FirstCandidate(resp) == resp.text[3].obj.candidates[1]

(* the district response is a JSON document with a feature list *)
HasFeatureList(resp) ==
    /\ resp.status = "ok"
    /\ Len(resp.text) = 1
    /\ resp.text[1].tok = "json"
    /\ "features" \in DOMAIN resp.text[1].obj

NoFeature(resp) == HasFeatureList(resp) /\ resp.text[1].obj.features = <<>>

(* the first feature carries district number n, as a number or in decimal digits *)
FirstFeatureIs(resp, n) ==
    /\ HasFeatureList(resp)
    /\ resp.text[1].obj.features # <<>>
    /\ "attributes" \in DOMAIN resp.text[1].obj.features[1]
    /\ LET d == resp.text[1].obj.features[1].attributes.COUNCIL_DISTRICT
       IN  \/ d.t = "int" /\ d.n = n
           \/ d.t = "str" /\ d.s = ToString(n)

CallIds == 1..Len(calls)

(* the call geocoded its row and then asked for the district *)
Geocoded(c) ==
    /\ ~Has(c.before, CCD)
    /\ Len(c.reqs) = 2
    /\ HasFirstCandidate(c.reqs[1].resp)

(* the header main writes for an input with header h *)
ExpectedHeader(h) ==
    IF \E j \in 1..Len(h) : h[j] = CCD THEN h
    ELSE IF \E j \in 1..Len(h) : h[j] = GA THEN h \o <<CCD>>
    ELSE h \o <<GA, CCD>>

(* C1 as stated: a completed run on a non-empty input writes as many rows as it
   read and the header is the original columns followed by geocoded_address and
   city_council_district, whatever columns the input has *)
C1_AlwaysTwoAdded ==
    pc = "done" =>
        /\ Len(output.rows) = Len(read)
        /\ output.header = Keys(read[1]) \o <<GA, CCD>>

(* C1 amended: a completed run writes one row per row read, in the same order
   and with the original cells in the original columns; the header is the
   original columns followed by the two new columns when the input has neither,
   by city_council_district alone when the input already has geocoded_address,
   and by nothing when the input already has city_council_district *)
C1_OutputShape ==
    pc = "done" =>
        /\ output.written
        /\ Len(output.rows) = Len(read)
        /\ output.header = ExpectedHeader(Keys(read[1]))
        /\ \A j \in 1..Len(read) :
             /\ Len(output.rows[j]) = Len(output.header)
             /\ \A c \in 1..Len(read[j]) :
                  (read[j][c].k # GA \/ Has(read[j], CCD))
                      => output.rows[j][c] = CsvCell(read[j][c].v)

C1_Witness ==
    /\ pc = "done"
    /\ Len(read) >= 2
    /\ read[1] # read[2]
    /\ ~Has(read[1], CCD) /\ ~Has(read[1], GA)
    /\ output.header = Keys(read[1]) \o <<GA, CCD>>

(* C2: a call on a row that already has a non-empty city_council_district
   returns with the row exactly as it was: same keys, same order, same values,
   no geocoded_address added *)
C2_SkipLeavesRowUnchanged ==
    \A k \in CallIds :
        LET c == calls[k]
            v == Get(c.before, CCD, NoneVal)
        IN  (Has(c.before, CCD) /\ v.t = "str" /\ v.s # "")
                => /\ ~c.fault
                   /\ c.after = c.before
                   /\ data[c.row] = c.before

C2_Witness ==
    \E k \in CallIds :
        /\ Get(calls[k].before, CCD, NoneVal) = StrVal("3")
        /\ ~Has(calls[k].before, GA)
        /\ calls[k].after = calls[k].before

(* C3: when the geocode response has a first candidate and the district
   response a first feature with district n, the row gets geocoded_address =
   the candidate's address and city_council_district = the integer n, also
   for n = 0 *)
C3_DistrictIsInteger ==
    \A k \in CallIds : \A n \in 0..MaxInt :
        LET c == calls[k]
        IN  (Geocoded(c) /\ FirstFeatureIs(c.reqs[2].resp, n))
                => /\ ~c.fault
                   /\ Get(c.after, GA, NoneVal)
                        = StrVal(FirstCandidate(c.reqs[1].resp).address)
                   /\ Get(c.after, CCD, NoneVal) = IntVal(n)
                   /\ Get(c.after, CCD, NoneVal) # StrVal(ToString(n))

C3_Witness ==
    \E k \in CallIds, m \in CallIds :
        /\ Geocoded(calls[k]) /\ FirstFeatureIs(calls[k].reqs[2].resp, 0)
        /\ Get(calls[k].after, CCD, NoneVal) = IntVal(0)
        /\ Geocoded(calls[m]) /\ FirstFeatureIs(calls[m].reqs[2].resp, 7)
        /\ calls[m].reqs[2].resp.text[1].obj.features[1].attributes.COUNCIL_DISTRICT
             = StrVal("7")
        /\ Get(calls[m].after, CCD, NoneVal) = IntVal(7)

(* C4: when geocoding succeeds and the district response has no feature,
   get_council_district returns None and the row gets city_council_district =
   "Unknown" and geocoded_address = the candidate's address *)
C4_NoFeatureIsUnknown ==
    \A k \in CallIds :
        LET c == calls[k]
        IN  (Geocoded(c) /\ NoFeature(c.reqs[2].resp))
                => /\ ~c.fault
                   /\ LET d == get_council_district(service,
                                   FirstCandidate(c.reqs[1].resp).location, c.reqs[2].resp)
                      IN  ~d.fault /\ d.ret = NoneVal
                   /\ Get(c.after, CCD, NoneVal) = StrVal("Unknown")
                   /\ Get(c.after, GA, NoneVal)
                        = StrVal(FirstCandidate(c.reqs[1].resp).address)

C4_Witness ==
    \E k \in CallIds :
        /\ Geocoded(calls[k]) /\ NoFeature(calls[k].reqs[2].resp)
        /\ Get(calls[k].after, CCD, NoneVal) = StrVal("Unknown")

(* C5: when the geocode response has an empty candidate list, geocode_address
   returns None without raising, the row gets geocoded_address = "" and
   city_council_district = "", and every other column keeps its place and value *)
C5_NoCandidateIsEmpty ==
    \A k \in CallIds :
        LET c == calls[k]
        IN  (~Has(c.before, CCD) /\ c.reqs # <<>> /\ NoCandidate(c.reqs[1].resp))
                => /\ ~c.fault
                   /\ Len(c.reqs) = 1
                   /\ LET g == geocode_address(service, c.reqs[1].param, c.reqs[1].resp)
                      IN  ~g.fault /\ g.ret = NoneVal
                   /\ Get(c.after, GA, NoneVal) = StrVal("")
                   /\ Get(c.after, CCD, NoneVal) = StrVal("")
                   /\ Keys(c.after) = ExpectedHeader(Keys(c.before))
                   /\ \A j \in 1..Len(c.before) :
                        c.before[j].k # GA => c.after[j] = c.before[j]

C5_Witness ==
    \E k \in CallIds :
        /\ ~Has(calls[k].before, CCD)
        /\ calls[k].reqs # <<>>
        /\ NoCandidate(calls[k].reqs[1].resp)
        /\ Get(calls[k].after, CCD, NoneVal) = StrVal("")
        /\ Has(calls[k].before, "city")

(* the positions of the row-processing events *)
ProcessIds == { e \in 1..Len(events) : events[e].ev = "process" }

(* C6: the output is written only once every row has been processed; when a
   call on some row raises, the run stops there: the call is the last one, no
   later row is processed and nothing is written, now or later *)
C6_FaultWritesNothing ==
    /\ output.written => Len(calls) = Len(read) /\ \A k \in CallIds : ~calls[k].fault
    /\ \A k \in CallIds :
         /\ calls[k].row = k
         /\ calls[k].fault =>
              /\ k = Len(calls)
              /\ pc = "fault"
              /\ output = NoOutput
              /\ Cardinality(ProcessIds) = k
    /\ (requests # <<>> /\ requests[1].resp.status # "ok") =>
         /\ pc = "fault"
         /\ calls = <<>>
         /\ output = NoOutput

C6_Witness ==
    /\ Len(calls) >= 2
    /\ Has(calls[1].after, CCD) /\ ~Has(calls[1].before, CCD)
    /\ calls[Len(calls)].fault
    /\ Len(calls[Len(calls)].reqs) = 2
    /\ output = NoOutput
    /\ pc = "fault"

(* C7: between two consecutive row-processing events there is a sleep event of
   the configured interval, after augmented and skipped rows alike, so the
   starts of two consecutive rows are at least the interval apart *)
C7_SleepBetweenRows ==
    \A a \in ProcessIds : \A b \in ProcessIds :
        (a < b /\ \A m \in ProcessIds : ~(a < m /\ m < b))
            => /\ b = a + 2
               /\ events[a + 1].ev = "sleep"
               /\ events[a + 1].secs = interval
               /\ events[a + 1].row = events[a].row
               /\ events[b].row = events[a].row + 1
               /\ events[b].at >= events[a].at + interval

C7_Witness ==
    /\ interval = DefaultInterval
    /\ Len(calls) >= 2
    /\ calls[1].reqs = <<>>
    /\ Cardinality(ProcessIds) = 2
    /\ clock = DefaultInterval

(* C9: one session per run, created and primed at construction: the landing
   page is the first request and is fetched once, and every geocode and
   district request goes through that session *)
C9_OneSessionPrimedOnce ==
    /\ nsessions <= 1
    /\ pc # "construct" => nsessions = 1 /\ requests # <<>>
    /\ \A k \in 1..Len(requests) :
         /\ (requests[k].url = LandingUrl) <=> (k = 1)
         /\ requests[k].session = 1
         /\ requests[k].session = nsessions
         /\ k > 1 => service.session = requests[k].session

C9_Witness ==
    /\ Len(calls) >= 2
    /\ Len(calls[1].reqs) = 2
    /\ Len(calls[2].reqs) = 2
    /\ Len(requests) = 5
    /\ requests[1].url = LandingUrl

(* C10: a call issues at most one geocode request and then at most one
   district request; the district request follows a geocode response with a
   candidate and carries that candidate's location; a row that has the
   city_council_district key, even with an empty value, issues no request; and
   after a normal return the row has the key, so that a second call on it
   issues nothing and changes nothing *)
C10_RequestProtocol ==
    \A k \in CallIds :
        LET c == calls[k]
        IN  /\ Len(c.reqs) <= 2
            /\ Len(c.reqs) >= 1 =>
                 /\ c.reqs[1].url = GeocodeUrl
                 /\ c.reqs[1].param = assemble_address(c.before)
            /\ Len(c.reqs) = 2 =>
                 /\ c.reqs[2].url = DistrictUrl
                 /\ HasFirstCandidate(c.reqs[1].resp)
                 /\ LET loc == FirstCandidate(c.reqs[1].resp).location
                    IN  c.reqs[2].param = ToString(loc.x) \o "," \o ToString(loc.y)
            /\ Has(c.before, CCD) => c.reqs = <<>> /\ c.after = c.before /\ ~c.fault
            /\ ~c.fault =>
                 /\ Has(c.after, CCD)
                 /\ \A geo \in GeocodeResponses, dist \in DistrictResponses :
                      add_city_council_district(service, c.after, geo, dist)
                          = [row |-> c.after, reqs |-> <<>>, fault |-> FALSE]

C10_Witness ==
    \E k \in CallIds, m \in CallIds :
        /\ Get(calls[k].before, CCD, NoneVal) = StrVal("")
        /\ calls[k].reqs = <<>>
        /\ Get(calls[m].before, CCD, NoneVal) = NoneVal
        /\ Has(calls[m].before, CCD)
        /\ calls[m].reqs = <<>>

(* the value the template takes for a field of the row as read *)
FieldText(key) ==
    IF \E j \in 1..Len(read[1]) : read[1][j].k = key
    THEN LET v == (CHOOSE cell \in { read[1][j] : j \in 1..Len(read[1]) } : cell.k = key).v
         IN  IF v.t = "none" THEN "None" ELSE v.s
    ELSE ""

(* C8: for every combination of present and absent address fields,
   assemble_address returns "{address1} {address2}, {city}, {state}, {zip},
   {country}" with the value of each present field and "" for each absent one,
   and leaves the row as it was *)
C8_AddressTemplate ==
    pc = "done" =>
        /\ address = FieldText("address1") \o " " \o FieldText("address2") \o ", "
                        \o FieldText("city") \o ", " \o FieldText("state") \o ", "
                        \o FieldText("zip") \o ", " \o FieldText("country")
        /\ data = read

C8_Witness ==
    /\ pc = "done"
    /\ Keys(read[1]) = <<"address1", "city", "zip">>
    /\ address = "1 Main St , Austin, , 78701, "

====
